---- MODULE Spec2Model ----
(***************************************************************************)
(* elephas: distributed training of a Keras model on Spark.                *)
(* Model of elephas/spark_model.py (SparkModel and SparkMLlibModel: fit,   *)
(* predict, evaluate, save; load_spark_model) together with the parameter  *)
(* server, the parameter client, the workers, the model codec and the      *)
(* weight arithmetic it drives.                                            *)
(*                                                                         *)
(* Specifications: Spec (fit calls, one after the other), SpecPredict,     *)
(* SpecEvaluate, SpecUtils (codec and weight arithmetic), SpecSave (save   *)
(* and load_spark_model on local and cluster files), SpecOverlap (fit      *)
(* calls of several threads), SpecInference (predict or evaluate between   *)
(* fit calls).                                                             *)
(*                                                                         *)
(* Numbers: numpy arrays hold floats; the model computes with exact        *)
(* rationals <<numerator, denominator>> in lowest terms (denominator > 0), *)
(* so that a division by the number of workers is a real division.         *)
(* A WeightSet is the weight list of the network Dense(1, input_shape=(1,))*)
(* (tests/utils/test_serialization.py): <<kernel, bias>>.                  *)
(***************************************************************************)
EXTENDS Integers, Sequences, FiniteSets, TLC

\* ------------------------------------------------------------------ bounds
\* the training work of one run: the partition tasks of all its fit calls
\* together train at most MaxWork epochs (a fit call on n partitions with
\* e epochs costs n * e, a fit call that raises before any dispatch costs 1)
MaxWork == 3
\* longest input sequence of a predict call
MaxInput == 4
\* largest num_workers of an orchestrator that predicts
MaxWorkers == 3
\* largest number of partitions of the rdd of an evaluate call
MaxEvalParts == 2
\* largest number of samples in one partition of an evaluate call
MaxCount == 2

\* ------------------------------------------------------- exact arithmetic
Abs(x) == IF x < 0 THEN -x ELSE x

RECURSIVE GCD(_, _)
GCD(a, b) == IF b = 0 THEN a ELSE GCD(b, a % b)

\* the rational n/d (d > 0) in lowest terms
Rat(n, d) == LET g == GCD(Abs(n), d) IN <<n \div g, d \div g>>

R(i) == <<i, 1>>

RatAdd(a, b) == Rat(a[1] * b[2] + b[1] * a[2], a[2] * b[2])
RatSub(a, b) == Rat(a[1] * b[2] - b[1] * a[2], a[2] * b[2])
RatMul(a, b) == Rat(a[1] * b[1], a[2] * b[2])
\* x / k for an integer k > 0
RatDivInt(a, k) == Rat(a[1], a[2] * k)

\* ------------------------------------------------------ weight arithmetic
\* elephas.utils.subtract_params: elementwise p1 - p2
subtract_params(p1, p2) == [k \in DOMAIN p1 |-> RatSub(p1[k], p2[k])]

\* an addition that adds the second operand twice
add_params_twice(p1, p2) ==
    [k \in DOMAIN p1 |-> RatAdd(RatAdd(p1[k], p2[k]), p2[k])]

\* elephas.utils.add_params: elementwise p1 + p2
add_params(p1, p2) == [k \in DOMAIN p1 |-> RatAdd(p1[k], p2[k])]

\* elephas.utils.divide_by: every array divided by num_workers
divide_by(array_list, num_workers) ==
    [k \in DOMAIN array_list |-> RatDivInt(array_list[k], num_workers)]

WS(a, b) == <<R(a), R(b)>>
ZeroWeights == WS(0, 0)

\* the weights of the compiled model handed to SparkModel(...)
InitialWeights == WS(2, 1)

\* what one round of local training can do to a worker's weights:
\* weights_after = weights_before - step
Steps == {WS(0, 0), WS(1, -2), WS(2, 1)}

Modes == {"asynchronous", "synchronous", "hogwild"}
ServerModes == {"asynchronous", "hogwild"}
\* the mode strings handed to the constructor, which does not check them
ModeArgs == Modes \cup {"sequential"}
ClassNames == {"SparkModel", "SparkMLlibModel"}

\* python values: None, an int, a str, a list of ints, a tuple of ints
PyNone == [t |-> "None", v |-> <<>>]
PyInt(n) == [t |-> "int", v |-> <<n>>]
PyStr(str) == [t |-> "str", v |-> <<str>>]
PyList(seq) == [t |-> "list", v |-> seq]
PyTuple(seq) == [t |-> "tuple", v |-> seq]

\* the constructor's defaults (lines 30-31): frequency, parameter_server_mode,
\* custom_objects (None becomes {} at lines 56-57), batch_size, port, no kwargs
DefaultSettings ==
    [frequency |-> "epoch", parameter_server_mode |-> "http",
     custom_objects |-> {}, batch_size |-> 32, port |-> 4000, kwargs |-> <<>>]

\* the arguments of the orchestrators that are saved: the defaults, all
\* given with a list among the extra kwargs, the defaults with a tuple
\* among the extra kwargs. kwargs is a dict: its items in order.
SettingsArgs ==
    {DefaultSettings,
     [frequency |-> "batch", parameter_server_mode |-> "socket",
      custom_objects |-> {"relu6"}, batch_size |-> 64, port |-> 5000,
      kwargs |-> <<<<"tags", PyList(<<1, 2>>)>>>>],
     [DefaultSettings EXCEPT !.kwargs = <<<<"tags", PyTuple(<<1, 2>>)>>>>]}


\* ------------------------------------------------------------------- state
VARIABLES
    \* SparkModel fields
    class_name,          \* the class of the orchestrator
    mode,                \* self.mode
    num_workers,         \* self.num_workers (0 stands for None)
    settings,            \* frequency, parameter_server_mode, custom_objects,
                         \* batch_size, port, kwargs
    master_weights,      \* self._master_network.get_weights()
    training_histories,  \* self._training_histories
    \* the parameter server created by __init__ (mode # synchronous)
    server_mode,         \* the mode handed to create_server ("none": no server)
    server_running,      \* started and not stopped: the port is bound
    store,               \* the server's weights (<<>>: no server)
    lock,                \* the writer holding the server's lock, 0 when free
    \* one fit call
    pc,                  \* where the orchestrator is in fit/_fit
    fit_result,          \* how the last fit call ended: none, returned, raised
    init,                \* _fit's local init, broadcast as parameters
    new_parameters,      \* _fit's local new_parameters
    training_outcomes,   \* _fit's local training_outcomes
    num_partitions,      \* partitions of the rdd handed to _fit
    epochs,              \* train_config['epochs']
    workers,             \* the partition tasks running worker.train
    \* history of the run
    fits,                \* fit calls begun so far
    work,                \* epochs of partition training dispatched so far
    fits_raised,         \* fit calls that raised so far
    store0,              \* the server's weights when the fit call began
    pushed,              \* sum of the deltas applied by the server in this fit call
    srv_log,             \* the start/stop calls made on the server, in order
    fit_trace,           \* the events of the current fit call, in order
    \* one predict call
    p_pc,                \* where the predict call is
    p_input,             \* the data handed to predict
    p_parts,             \* the partitions of the rdd the model is mapped over
    p_mapped,            \* the partitions after mapPartitions
    p_result,            \* what predict returned
    \* one evaluate call
    e_pc,                \* where the evaluate call is
    e_parts,             \* the results of mapPartitions(_evaluate), by partition
    e_pending,           \* the partitions whose result reduce has not merged yet
    e_acc,               \* what reduce has merged so far (<<>>: nothing)
    e_value,             \* what evaluate returned
    \* files: save and load_spark_model
    fs,                  \* the local files, by name
    hdfs,                \* the files of the hadoop cluster, by name
    uuids,               \* uuid4() calls made so far
    calls,               \* save and load_spark_model calls made so far
    f_call,              \* the last save or load_spark_model call
    loaded,              \* what load_spark_model returned (<<>>: None)
    \* fit calls that overlap in time, on the orchestrators of one process
    o_port,              \* the port of every orchestrator constructed
    bound,               \* by port: the orchestrator whose server listens (0: none)
    c_orch,              \* by fit call: the orchestrator it was made on
    c_pc,                \* by fit call: where it is
    c_left,              \* by fit call: deltas its workers have still to send
    srv_from,            \* by server: the running fit calls it got deltas from
    \* one use of elephas.utils: the model codec or the weight arithmetic
    u_pc,                \* which function was applied last
    u_model,             \* the model handed to model_to_dict
    u_dict,              \* what model_to_dict returned
    u_recovered,         \* what dict_to_model returned
    u_a,                 \* the WeightSet A
    u_b,                 \* the WeightSet B
    u_k,                 \* the divisor
    u_diff,              \* subtract_params(A, B)
    u_sum,               \* add_params(subtract_params(A, B), B)
    u_quot               \* divide_by(A, k)

orchVars == <<class_name, mode, num_workers, settings, master_weights,
              training_histories>>
serverVars == <<server_mode, server_running, store, lock>>
fitVars == <<pc, fit_result, init, new_parameters, training_outcomes,
             num_partitions, epochs, workers>>
fitVars_but_workers == <<pc, fit_result, init, new_parameters, training_outcomes,
                         num_partitions, epochs>>
histVars == <<fits, work, fits_raised, store0, pushed, srv_log, fit_trace>>

predVars == <<p_pc, p_input, p_parts, p_mapped, p_result>>

evalVars == <<e_pc, e_parts, e_pending, e_acc, e_value>>
utilVars == <<u_pc, u_model, u_dict, u_recovered, u_a, u_b, u_k, u_diff,
              u_sum, u_quot>>
\* the variables of the calls that are neither fit, predict nor evaluate
fileVars == <<fs, hdfs, uuids, calls, f_call, loaded>>
overlapVars == <<o_port, bound, c_orch, c_pc, c_left, srv_from>>
otherVars == <<utilVars, fileVars, overlapVars>>
callVars == <<predVars, evalVars, otherVars>>

vars == <<orchVars, serverVars, fitVars, histVars, predVars, evalVars,
          otherVars>>

\* no function of elephas.utils has been applied
NoUtilityCall ==
    /\ u_pc = "idle"
    /\ u_model = <<>>
    /\ u_dict = <<>>
    /\ u_recovered = <<>>
    /\ u_a = <<>>
    /\ u_b = <<>>
    /\ u_k = 0
    /\ u_diff = <<>>
    /\ u_sum = <<>>
    /\ u_quot = <<>>

\* the ports of the servers: the default of the constructor (line 31) and
\* another one
Ports == {4000, 5000}
\* two fit calls made by two threads of the process
FitCalls == {1, 2}

\* no orchestrator of a process with threads is constructed yet
NoOverlap ==
    /\ o_port = <<>>
    /\ bound = [p \in Ports |-> 0]
    /\ c_orch = [c \in FitCalls |-> 0]
    /\ c_pc = [c \in FitCalls |-> "idle"]
    /\ c_left = [c \in FitCalls |-> 0]
    /\ srv_from = <<>>

\* no file exists and neither save nor load_spark_model has been called
NoFileCall ==
    /\ fs = <<>>
    /\ hdfs = <<>>
    /\ uuids = 0
    /\ calls = 0
    /\ f_call = <<>>
    /\ loaded = <<>>

Partitions == DOMAIN workers

NoWorker == [pc |-> "absent", delta |-> ZeroWeights, before |-> ZeroWeights,
             final |-> ZeroWeights, left |-> 0]

\* ------------------------------------------------------------ constructor
\* a constructor that hands every server the hogwild mode
ServerModeOf_hogwild(m) == IF m # "synchronous" THEN "hogwild" ELSE "none"

\* a constructor that mixes up the two server modes
ServerModeOf_swapped(m) ==
    CASE m = "asynchronous" -> "hogwild"
      [] m = "hogwild" -> "asynchronous"
      [] OTHER -> "none"

\* SparkModel.__init__, line 77: the server is created with self.mode
ServerModeOf(m) == IF m # "synchronous" THEN m ELSE "none"

\* SparkModel.__init__ and SparkMLlibModel.__init__: the state after
\* construction, the class drawn from Classes, num_workers from NumWorkers
\* and the other arguments from Settings; the num_workers of a
\* SparkMLlibModel is an int (default 4), its fit repartitions to it
\* unconditionally
Constructed(Classes, NumWorkers, Settings) ==
    /\ class_name \in Classes
    /\ settings \in Settings
    /\ mode \in ModeArgs
    /\ num_workers \in NumWorkers
    /\ class_name = "SparkMLlibModel" => num_workers # 0
    /\ master_weights = InitialWeights
    /\ training_histories = <<>>
    /\ server_mode = ServerModeOf(mode)
    /\ server_running = FALSE
    /\ store = IF mode # "synchronous" THEN master_weights ELSE <<>>
    /\ lock = 0
    /\ pc = "idle"
    /\ fit_result = "none"
    /\ init = ZeroWeights
    /\ new_parameters = ZeroWeights
    /\ training_outcomes = <<>>
    /\ num_partitions = 0
    /\ epochs = 0
    /\ workers = <<>>
    /\ fits = 0
    /\ work = 0
    /\ fits_raised = 0
    /\ store0 = store
    /\ pushed = ZeroWeights
    /\ srv_log = <<>>
    /\ fit_trace = <<>>
    /\ p_pc = "idle"
    /\ p_input = <<>>
    /\ p_parts = <<>>
    /\ p_mapped = <<>>
    /\ p_result = <<>>
    /\ e_pc = "idle"
    /\ e_parts = <<>>
    /\ e_pending = {}
    /\ e_acc = <<>>
    /\ e_value = <<>>
    /\ NoUtilityCall
    /\ NoFileCall
    /\ NoOverlap

Init == Constructed(ClassNames, 0..2, {DefaultSettings})

\* ------------------------------------------------------- parameter server
\* a start_server that does not start the server
start_server_missing == UNCHANGED <<server_running, srv_log>>

\* SparkModel.start_server: self.parameter_server.start()
start_server ==
    /\ server_running' = TRUE
    /\ srv_log' = Append(srv_log, "start")

\* SparkModel.stop_server: self.parameter_server.stop()
stop_server ==
    /\ server_running' = FALSE
    /\ srv_log' = Append(srv_log, "stop")

\* parameter store, apply_delta: current = current - delta
apply_delta(current, delta) == subtract_params(current, delta)

\* parameter store, get: the current snapshot
get_parameters == store

\* a _fit that starts the server under the constructor's test for a server
UsesServer_notSynchronous == mode # "synchronous"

\* a _fit that starts and stops the server in every mode
UsesServer_always == TRUE

\* --------------------------------------------------------------- fit, _fit
UsesServer == mode \in ServerModes

\* fit lines 181-186 and _fit lines 193-214/220 up to the dispatch of the
\* partition tasks: repartition, compile, start_server, broadcast
FitBegin ==
    /\ pc = "idle"
    /\ mode \in Modes
    /\ \E n \in 1..MaxWork, e \in 1..MaxWork :
         /\ work + n * e <= MaxWork
         /\ (num_workers # 0 => n = num_workers)
         /\ num_partitions' = n
         /\ epochs' = e
         /\ work' = work + n * e
         /\ workers' = [i \in 1..n |->
                          [NoWorker EXCEPT !.pc = "train", !.left = e,
                                           !.final = master_weights]]
    /\ IF UsesServer
       THEN /\ start_server
            /\ fit_trace' = <<"start", "dispatch">>
       ELSE /\ UNCHANGED <<server_running, srv_log>>
            /\ fit_trace' = <<"dispatch">>
    /\ init' = master_weights
    /\ new_parameters' = ZeroWeights
    /\ training_outcomes' = <<>>
    /\ pc' = "dispatched"
    /\ fit_result' = "none"
    /\ fits' = fits + 1
    /\ store0' = store
    /\ pushed' = ZeroWeights
    /\ UNCHANGED <<orchVars, server_mode, store, lock, fits_raised>>

\* fit on an orchestrator whose mode is none of the three: SparkModel.fit
\* raises ValueError at line 188; SparkMLlibModel.fit calls _fit, which
\* compiles, starts the server if line 196 says so, broadcasts the weights,
\* and raises ValueError at line 230. A call costs one unit of work.
FitUnsupportedMode ==
    /\ pc = "idle"
    /\ mode \notin Modes
    /\ work < MaxWork
    /\ work' = work + 1
    /\ IF class_name = "SparkMLlibModel"
       THEN /\ init' = master_weights
            /\ IF UsesServer
               THEN /\ start_server
                    /\ fit_trace' = <<"start", "raise">>
               ELSE /\ UNCHANGED <<server_running, srv_log>>
                    /\ fit_trace' = <<"compile", "raise">>
       ELSE /\ UNCHANGED <<init, server_running, srv_log>>
            /\ fit_trace' = <<"raise">>
    /\ fit_result' = "ValueError"
    /\ fits' = fits + 1
    /\ fits_raised' = fits_raised + 1
    /\ UNCHANGED <<orchVars, server_mode, store, lock, pc, new_parameters,
                   training_outcomes, num_partitions, epochs, workers,
                   store0, pushed>>


\* ------------------------------------------------- asynchronous worker
\* AsynchronousSparkWorker.train, one epoch of local training: the delta is
\* the weights before training minus the weights after it
WorkerTrain(i) ==
    /\ pc = "dispatched"
    /\ UsesServer
    /\ i \in Partitions
    /\ workers[i].pc = "train"
    /\ \E step \in Steps :
         LET weights_before == workers[i].final
             weights_after == subtract_params(weights_before, step)
         IN workers' = [workers EXCEPT
                          ![i].pc = "send",
                          ![i].final = weights_after,
                          ![i].delta = subtract_params(weights_before, weights_after)]
    /\ UNCHANGED <<orchVars, serverVars, pc, fit_result, init, new_parameters,
                   training_outcomes, num_partitions, epochs, histVars>>

\* client.update_parameters(delta) reaches the server: the update handler
\* takes the lock in asynchronous mode, none in hogwild mode, and reads the
\* current weights
send_delta(i) ==
    /\ pc = "dispatched"
    /\ i \in Partitions
    /\ workers[i].pc = "send"
    /\ server_running
    /\ IF server_mode = "asynchronous"
       THEN lock = 0 /\ lock' = i
       ELSE UNCHANGED lock
    /\ workers' = [workers EXCEPT ![i].pc = "apply", ![i].before = store]
    /\ UNCHANGED <<orchVars, server_mode, server_running, store, pc, fit_result,
                   init, new_parameters, training_outcomes, num_partitions,
                   epochs, histVars>>

\* the update handler writes weights_before - delta and releases the lock
update_parameters(i) ==
    /\ i \in Partitions
    /\ workers[i].pc = "apply"
    /\ store' = apply_delta(workers[i].before, workers[i].delta)
    /\ lock' = IF server_mode = "asynchronous" THEN 0 ELSE lock
    /\ pushed' = add_params(pushed, workers[i].delta)
    /\ workers' = [workers EXCEPT ![i].pc = "get"]
    /\ UNCHANGED <<orchVars, server_mode, server_running, fitVars_but_workers,
                   fits, work, fits_raised, store0, srv_log, fit_trace>>

\* the worker refreshes its weights with client.get_parameters() and goes on
\* with the next epoch, or ends
WorkerGetParameters(i) ==
    /\ pc = "dispatched"
    /\ i \in Partitions
    /\ workers[i].pc = "get"
    /\ server_running
    /\ workers' = [workers EXCEPT
                     ![i].final = get_parameters,
                     ![i].left = @ - 1,
                     ![i].pc = IF workers[i].left = 1 THEN "done" ELSE "train"]
    /\ UNCHANGED <<orchVars, serverVars, fitVars_but_workers, histVars>>

\* a partition task fails: a training exception, or a connection failure of
\* send_delta before the request reaches the server
WorkerFail(i) ==
    /\ pc = "dispatched"
    /\ i \in Partitions
    /\ workers[i].pc \in {"train", "send"}
    /\ workers' = [workers EXCEPT ![i].pc = "failed"]
    /\ UNCHANGED <<orchVars, serverVars, fitVars_but_workers, histVars>>

\* -------------------------------------------------- synchronous worker
\* SparkWorker.train: train locally from the broadcast weights and yield
\* (initial weights - final weights, history)
SyncTrain(i) ==
    /\ pc = "dispatched"
    /\ mode = "synchronous"
    /\ i \in Partitions
    /\ workers[i].pc = "train"
    /\ \E step \in Steps :
         LET weights_after == subtract_params(init, step)
         IN workers' = [workers EXCEPT
                          ![i].pc = "done",
                          ![i].final = weights_after,
                          ![i].delta = subtract_params(init, weights_after)]
    /\ UNCHANGED <<orchVars, serverVars, fitVars_but_workers, histVars>>

\* ------------------------------------------------------ _fit, continued
\* a dispatch that returns as soon as one partition task has finished
AllDone_first == \E i \in Partitions : workers[i].pc = "done"

\* line 214 / line 220: collect() returns when every partition task has
\* returned its result
AllDone == \A i \in Partitions : workers[i].pc = "done"
SomeFailed == \E i \in Partitions : workers[i].pc = "failed"

\* a fit that keeps what the finished tasks produced when another task failed
FitRaise_partial ==
    /\ pc = "dispatched"
    /\ SomeFailed
    /\ \A i \in Partitions : workers[i].pc # "apply"
    /\ training_histories' =
           training_histories \o
           SelectSeq([i \in Partitions |-> <<fits, i>>],
                     LAMBDA h : workers[h[2]].pc = "done")
    /\ pc' = "idle"
    /\ fit_result' = "raised"
    /\ fits_raised' = fits_raised + 1
    /\ fit_trace' = Append(fit_trace, "raise")
    /\ UNCHANGED <<class_name, mode, num_workers, settings, master_weights, serverVars, init,
                   new_parameters, training_outcomes, num_partitions, epochs,
                   workers, fits, work, store0, pushed, srv_log>>

\* rdd.mapPartitions(worker.train).collect() raises because a partition task
\* failed: the exception leaves _fit and fit; the other tasks are cancelled
FitRaise ==
    /\ pc = "dispatched"
    /\ SomeFailed
    /\ \A i \in Partitions : workers[i].pc # "apply"
    /\ workers' = [i \in Partitions |->
                     IF workers[i].pc \in {"train", "send", "get"}
                     THEN [workers[i] EXCEPT !.pc = "cancelled"]
                     ELSE workers[i]]
    /\ pc' = "idle"
    /\ fit_result' = "raised"
    /\ fits_raised' = fits_raised + 1
    /\ fit_trace' = Append(fit_trace, "raise")
    /\ UNCHANGED <<orchVars, serverVars, init, new_parameters, training_outcomes,
                   num_partitions, epochs, fits, work, store0, pushed, srv_log>>

\* line 214: collect() returns, every partition task has finished
FitCollect ==
    /\ pc = "dispatched"
    /\ UsesServer
    /\ AllDone
    /\ pc' = "collected"
    /\ fit_trace' = Append(fit_trace, "tasks_done")
    /\ UNCHANGED <<orchVars, serverVars, fit_result, init, new_parameters,
                   training_outcomes, num_partitions, epochs, workers,
                   fits, work, fits_raised, store0, pushed, srv_log>>

\* line 216: new_parameters = self.client.get_parameters()
FitGetParameters ==
    /\ pc = "collected"
    /\ new_parameters' = get_parameters
    /\ pc' = "reconciled"
    /\ fit_trace' = Append(fit_trace, "get_parameters")
    /\ UNCHANGED <<orchVars, serverVars, fit_result, init, training_outcomes,
                   num_partitions, epochs, workers,
                   fits, work, fits_raised, store0, pushed, srv_log>>

\* a loop that divides by one more than the number of sub-models
ReconcileStep_wrongN(params, grad, number_of_sub_models) ==
    subtract_params(params, divide_by(grad, number_of_sub_models + 1))

\* a loop that subtracts from the master's weights instead of accumulating
ReconcileStep_lastWins(params, grad, number_of_sub_models) ==
    subtract_params(master_weights, divide_by(grad, number_of_sub_models))

\* a loop that subtracts the weights from the gradient
ReconcileStep_swapped(params, grad, number_of_sub_models) ==
    subtract_params(divide_by(grad, number_of_sub_models), params)

\* lines 226-227: one round of the reconciliation loop
ReconcileStep(params, grad, number_of_sub_models) ==
    subtract_params(params, divide_by(grad, number_of_sub_models))

\* lines 221-227: the loop over training_outcomes from the k-th on
RECURSIVE Reconcile(_, _, _)
Reconcile(params, outcomes, k) ==
    IF k > Len(outcomes)
    THEN params
    ELSE Reconcile(ReconcileStep(params, outcomes[k][1], Len(outcomes)),
                   outcomes, k + 1)

\* a loop that puts the new histories in front of the log
append_histories_in_front(log, outcomes) ==
    [i \in DOMAIN outcomes |-> outcomes[i][2]] \o log

\* lines 223-225: every outcome's history is appended to the log, in the
\* order of training_outcomes
append_histories(log, outcomes) ==
    log \o [i \in DOMAIN outcomes |-> outcomes[i][2]]

\* lines 220-227: collect() returns the (gradient, history) pairs, one per
\* partition; the histories are appended and the gradients subtracted
FitReconcile ==
    /\ pc = "dispatched"
    /\ mode = "synchronous"
    /\ AllDone
    /\ LET outcomes == [i \in Partitions |-> <<workers[i].delta, <<fits, i>>>>]
       IN /\ training_outcomes' = outcomes
          /\ training_histories' =
                 append_histories(training_histories, outcomes)
          /\ new_parameters' = Reconcile(master_weights, outcomes, 1)
    /\ pc' = "reconciled"
    /\ fit_trace' = Append(fit_trace, "tasks_done")
    /\ UNCHANGED <<class_name, mode, num_workers, settings, master_weights, serverVars, fit_result,
                   init, num_partitions, epochs, workers,
                   fits, work, fits_raised, store0, pushed, srv_log>>

\* lines 231-233: set_weights(new_parameters), then stop_server
FitSetWeights ==
    /\ pc = "reconciled"
    /\ master_weights' = new_parameters
    /\ IF UsesServer
       THEN /\ stop_server
            /\ fit_trace' = fit_trace \o <<"set_weights", "stop">>
       ELSE /\ UNCHANGED <<server_running, srv_log>>
            /\ fit_trace' = Append(fit_trace, "set_weights")
    /\ pc' = "idle"
    /\ fit_result' = "returned"
    /\ UNCHANGED <<class_name, mode, num_workers, settings, training_histories, server_mode, store,
                   lock, init, new_parameters, training_outcomes,
                   num_partitions, epochs, workers,
                   fits, work, fits_raised, store0, pushed>>

Next ==
    \/ FitBegin /\ UNCHANGED callVars
    \/ FitUnsupportedMode /\ UNCHANGED callVars
    \/ \E i \in Partitions : WorkerTrain(i) /\ UNCHANGED callVars
    \/ \E i \in Partitions : send_delta(i) /\ UNCHANGED callVars
    \/ \E i \in Partitions : update_parameters(i) /\ UNCHANGED callVars
    \/ \E i \in Partitions : WorkerGetParameters(i) /\ UNCHANGED callVars
    \/ \E i \in Partitions : WorkerFail(i) /\ UNCHANGED callVars
    \/ \E i \in Partitions : SyncTrain(i) /\ UNCHANGED callVars
    \/ FitRaise /\ UNCHANGED callVars
    \/ FitCollect /\ UNCHANGED callVars
    \/ FitGetParameters /\ UNCHANGED callVars
    \/ FitReconcile /\ UNCHANGED callVars
    \/ FitSetWeights /\ UNCHANGED callVars

Spec == Init /\ [][Next]_vars

\* ------------------------------------------------------------------ predict
Elems == {0, 1}

\* the data a caller can hand to predict
Inputs == UNION {[1..n -> Elems] : n \in 0..MaxInput}

\* model.predict on one sample of the network Dense(1): kernel * x + bias
Predict(weights, x) == RatAdd(RatMul(weights[1], R(x)), weights[2])

\* the permutations of 1..n
Perms(n) == {f \in [1..n -> 1..n] : \A i, j \in 1..n : i # j => f[i] # f[j]}

\* the ways to cut a sequence of length n into k consecutive runs, some of
\* them possibly empty: c[j] is the end of the j-th run
Cuts(n, k) ==
    {c \in [0..k -> 0..n] :
        /\ c[0] = 0
        /\ c[k] = n
        /\ \A j \in 1..k : c[j - 1] <= c[j]}

\* seq laid out over k partitions in the order p with the cuts c
Layout(seq, k, p, c) ==
    [j \in 1..k |-> [m \in 1..(c[j] - c[j - 1]) |-> seq[p[c[j - 1] + m]]]]

\* rdd.zipWithIndex(): every element with its index, from 0
zipWithIndex(seq) == [i \in DOMAIN seq |-> <<seq[i], i - 1>>]

\* rdd.repartition(n): a shuffle; every distribution of the elements over the
\* n partitions, in every order
Repartitions(seq, n) ==
    {Layout(seq, n, p, c) : p \in Perms(Len(seq)), c \in Cuts(Len(seq), n)}

\* the partitions of an rdd that was not shuffled: consecutive runs
Slices(seq) ==
    UNION {{Layout(seq, k, [i \in 1..Len(seq) |-> i], c) : c \in Cuts(Len(seq), k)}
               : k \in 1..MaxWorkers}

RECURSIVE Flatten(_)
Flatten(parts) ==
    IF parts = <<>> THEN <<>> ELSE Head(parts) \o Flatten(Tail(parts))

\* lines 250-255, _predict_with_indices on one partition
predict_with_indices(weights, data) ==
    [m \in DOMAIN data |-> <<Predict(weights, data[m][1]), data[m][2]>>]

\* lines 244-248, _predict on one partition
predict_partition(weights, data) ==
    [m \in DOMAIN data |-> Predict(weights, data[m])]

\* insert the pair e into the sequence s sorted by its second component
RECURSIVE InsertByIndex(_, _)
InsertByIndex(e, s) ==
    IF s = <<>> THEN <<e>>
    ELSE IF e[2] < Head(s)[2] THEN <<e>> \o s
    ELSE <<Head(s)>> \o InsertByIndex(e, Tail(s))

\* a predict that leaves the sort out
sortBy_missing(s) == s

\* line 265: sortBy(lambda x: x[1])
RECURSIVE sortBy(_)
sortBy(s) == IF s = <<>> THEN <<>> ELSE InsertByIndex(Head(s), sortBy(Tail(s)))

WithIndices == num_workers > 1

\* predict, lines 154-160, and _predict lines 239-243, 257-263: the data
\* becomes an rdd; with several workers it is tagged and repartitioned
PredictBegin ==
    /\ p_pc = "idle"
    /\ \E data \in Inputs :
         /\ p_input' = data
         /\ IF WithIndices
            THEN p_parts' \in Repartitions(zipWithIndex(data), num_workers)
            ELSE p_parts' \in Slices(data)
    /\ p_pc' = "partitioned"
    /\ UNCHANGED <<otherVars, orchVars, serverVars, fitVars, histVars, evalVars, p_mapped,
                   p_result>>

\* line 264: mapPartitions(_predict_with_indices); on an empty partition
\* "data, indices = zip(*data)" has nothing to unpack and raises
PredictMapWithIndices ==
    /\ p_pc = "partitioned"
    /\ WithIndices
    /\ IF \E j \in DOMAIN p_parts : p_parts[j] = <<>>
       THEN /\ p_pc' = "raised"
            /\ UNCHANGED p_mapped
       ELSE /\ p_pc' = "mapped"
            /\ p_mapped' = [j \in DOMAIN p_parts |->
                              predict_with_indices(master_weights, p_parts[j])]
    /\ UNCHANGED <<otherVars, orchVars, serverVars, fitVars, histVars, evalVars, p_input, p_parts,
                   p_result>>

\* line 270: mapPartitions(_predict); what model.predict does with the empty
\* array of an empty partition is up to Keras: it raises or predicts nothing
PredictMap ==
    /\ p_pc = "partitioned"
    /\ ~WithIndices
    /\ \/ /\ p_pc' = "mapped"
          /\ p_mapped' = [j \in DOMAIN p_parts |->
                            predict_partition(master_weights, p_parts[j])]
       \/ /\ \E j \in DOMAIN p_parts : p_parts[j] = <<>>
          /\ p_pc' = "raised"
          /\ UNCHANGED p_mapped
    /\ UNCHANGED <<otherVars, orchVars, serverVars, fitVars, histVars, evalVars, p_input, p_parts,
                   p_result>>

\* lines 265-266 and 270-272: sort by index and strip it, or collect as is
PredictCollect ==
    /\ p_pc = "mapped"
    /\ p_result' =
         IF WithIndices
         THEN LET sorted == sortBy(Flatten(p_mapped))
              IN [m \in DOMAIN sorted |-> sorted[m][1]]
         ELSE Flatten(p_mapped)
    /\ p_pc' = "returned"
    /\ UNCHANGED <<otherVars, orchVars, serverVars, fitVars, histVars, evalVars, p_input, p_parts,
                   p_mapped>>

InitPredict == Constructed({"SparkModel"}, 0..MaxWorkers, {DefaultSettings})

NextPredict ==
    \/ PredictBegin
    \/ PredictMapWithIndices
    \/ PredictMap
    \/ PredictCollect

SpecPredict == InitPredict /\ [][NextPredict]_vars

\* ----------------------------------------------------------------- evaluate
\* x / y for a rational y > 0
RatDiv(a, b) == Rat(a[1] * b[2], a[2] * b[1])

\* the loss and metric values model.evaluate can return on a partition
Vals == {R(1), R(3)}

\* line 295: what _evaluate yields for a partition of count samples whose
\* loss and metrics are values: evaluation_results + [len(x_test)]
PartitionResult(values, count) == Append(values, R(count))

\* line 300: every value times the sample count, the count kept
mapping_function_unweighted(x) == x

mapping_function(x) ==
    [i \in DOMAIN x |-> IF i < Len(x) THEN RatMul(x[Len(x)], x[i]) ELSE x[i]]

\* line 301: the elementwise sum
reducing_function(x, y) == [i \in DOMAIN x |-> RatAdd(x[i], y[i])]

\* evaluate lines 162-167 and _evaluate lines 276-299: the test data becomes
\* an rdd, repartitioned to num_workers when set, and every partition is
\* evaluated; what model.evaluate does on an empty partition is up to Keras:
\* it raises or returns values for 0 samples
EvaluateBegin ==
    /\ e_pc = "idle"
    /\ \E k \in 1..MaxEvalParts, nmetrics \in 0..1 :
         /\ (num_workers # 0 => k = num_workers)
         /\ \E values \in [1..k -> [1..(1 + nmetrics) -> Vals]],
               counts \in [1..k -> 0..MaxCount] :
              \/ /\ e_parts' = [j \in 1..k |-> PartitionResult(values[j], counts[j])]
                 /\ e_pending' = 1..k
                 /\ e_pc' = "mapped"
              \/ /\ \E j \in 1..k : counts[j] = 0
                 /\ e_pc' = "raised"
                 /\ UNCHANGED <<e_parts, e_pending>>
    /\ UNCHANGED <<otherVars, orchVars, serverVars, fitVars, histVars, predVars, e_acc, e_value>>

\* lines 302-304: map(mapping_function).reduce(reducing_function): the
\* partitions' results are merged in the order in which their tasks finish
EvaluateReduce ==
    /\ e_pc = "mapped"
    /\ \E j \in e_pending :
         /\ e_acc' = IF e_acc = <<>>
                     THEN mapping_function(e_parts[j])
                     ELSE reducing_function(e_acc, mapping_function(e_parts[j]))
         /\ e_pending' = e_pending \ {j}
    /\ UNCHANGED <<otherVars, orchVars, serverVars, fitVars, histVars, predVars, e_pc, e_parts,
                   e_value>>

\* an evaluate that records its result in the history log
EvaluateReturn_logged ==
    /\ e_pc = "mapped"
    /\ e_pending = {}
    /\ e_acc[Len(e_acc)] # R(0)
    /\ e_pc' = "returned"
    /\ e_value' = e_acc
    /\ training_histories' = Append(training_histories, e_acc)
    /\ UNCHANGED <<otherVars, class_name, mode, num_workers, settings,
                   master_weights, serverVars, fitVars, histVars, predVars,
                   e_parts, e_pending, e_acc>>

\* lines 302-308: the sums divided by the number of samples; the loss alone
\* when there are no metrics
EvaluateReturn ==
    /\ e_pc = "mapped"
    /\ e_pending = {}
    /\ LET number_of_samples == e_acc[Len(e_acc)]
           averages == [i \in 1..(Len(e_acc) - 1) |-> RatDiv(e_acc[i], number_of_samples)]
       IN IF number_of_samples = R(0)
          THEN /\ e_pc' = "raised"
               /\ UNCHANGED e_value
          ELSE /\ e_pc' = "returned"
               /\ e_value' = IF Len(averages) > 1 THEN averages ELSE averages[1]
    /\ UNCHANGED <<otherVars, orchVars, serverVars, fitVars, histVars, predVars, e_parts,
                   e_pending, e_acc>>

InitEvaluate ==
    Constructed({"SparkModel"}, 0..MaxEvalParts, {DefaultSettings})

NextEvaluate ==
    \/ EvaluateBegin
    \/ EvaluateReduce
    \/ EvaluateReturn

SpecEvaluate == InitEvaluate /\ [][NextEvaluate]_vars


\* ------------------------------------------------------------ elephas.utils
\* the model codec (utils.serialization) and the weight arithmetic
\* (utils.functional_utils), applied to inputs drawn from small sets

\* largest divisor handed to divide_by
MaxDivisor == 2

\* the values of one weight
WeightValues == {R(-1), R(0), Rat(1, 2), R(2)}
\* the WeightSets of one array and of two arrays
WeightSets == UNION {[1..n -> WeightValues] : n \in 1..2}

\* the models Sequential([Dense(1, input_shape=(1,), activation=a)])
Activations == {"linear", "relu"}
KerasModels ==
    [arch : [units : {1}, input_dim : {1}, activation : Activations],
     weights : [1..2 -> WeightValues]]

\* keras Model.to_json: the architecture as text, here the tokens of the text
to_json(model) ==
    <<"Sequential", "Dense", ToString(model.arch.units),
      ToString(model.arch.input_dim), model.arch.activation>>

get_weights(model) == model.weights

set_weights(model, weights) == [model EXCEPT !.weights = weights]

ParseInt(str) == CHOOSE n \in 0..9 : ToString(n) = str

\* keras model_from_json: the network the text describes, newly initialised
model_from_json(json) ==
    [arch |-> [units |-> ParseInt(json[3]), input_dim |-> ParseInt(json[4]),
               activation |-> json[5]],
     weights |-> ZeroWeights]

\* a python dict: its items in insertion order
Keys(d) == [i \in DOMAIN d |-> d[i][1]]
Lookup(d, key) == d[CHOOSE i \in DOMAIN d : d[i][1] = key][2]

\* elephas.utils.serialization.model_to_dict
model_to_dict(model) ==
    <<<<"model", to_json(model)>>, <<"weights", get_weights(model)>>>>

\* a decoder that rebuilds the network and leaves its new weights
dict_to_model_fresh(d) == model_from_json(Lookup(d, "model"))

\* elephas.utils.serialization.dict_to_model
dict_to_model(d) ==
    set_weights(model_from_json(Lookup(d, "model")), Lookup(d, "weights"))

ModelToDict ==
    /\ u_pc = "idle"
    /\ \E model \in KerasModels :
         /\ u_model' = model
         /\ u_dict' = model_to_dict(model)
    /\ u_pc' = "encoded"
    /\ UNCHANGED <<u_recovered, u_a, u_b, u_k, u_diff, u_sum, u_quot>>

DictToModel ==
    /\ u_pc = "encoded"
    /\ u_recovered' = dict_to_model(u_dict)
    /\ u_pc' = "decoded"
    /\ UNCHANGED <<u_model, u_dict, u_a, u_b, u_k, u_diff, u_sum, u_quot>>

SubtractParams ==
    /\ u_pc = "idle"
    /\ \E A \in WeightSets, B \in WeightSets :
         /\ Len(A) = Len(B)
         /\ u_a' = A
         /\ u_b' = B
         /\ u_diff' = subtract_params(A, B)
    /\ u_pc' = "subtracted"
    /\ UNCHANGED <<u_model, u_dict, u_recovered, u_k, u_sum, u_quot>>

AddParams ==
    /\ u_pc = "subtracted"
    /\ u_sum' = add_params(u_diff, u_b)
    /\ u_pc' = "added"
    /\ UNCHANGED <<u_model, u_dict, u_recovered, u_a, u_b, u_k, u_diff, u_quot>>

DivideBy ==
    /\ u_pc = "idle"
    /\ \E A \in WeightSets, k \in 1..MaxDivisor :
         /\ u_a' = A
         /\ u_k' = k
         /\ u_quot' = divide_by(A, k)
    /\ u_pc' = "divided"
    /\ UNCHANGED <<u_model, u_dict, u_recovered, u_b, u_diff, u_sum>>

modelVars == <<orchVars, serverVars, fitVars, histVars, predVars, evalVars>>

InitUtils ==
    Constructed({"SparkModel"}, {0}, {DefaultSettings}) /\ mode = "synchronous"

NextUtils ==
    \/ ModelToDict /\ UNCHANGED <<modelVars, fileVars, overlapVars>>
    \/ DictToModel /\ UNCHANGED <<modelVars, fileVars, overlapVars>>
    \/ SubtractParams /\ UNCHANGED <<modelVars, fileVars, overlapVars>>
    \/ AddParams /\ UNCHANGED <<modelVars, fileVars, overlapVars>>
    \/ DivideBy /\ UNCHANGED <<modelVars, fileVars, overlapVars>>

SpecUtils == InitUtils /\ [][NextUtils]_vars

\* --------------------------------------------------- save, load_spark_model
\* most save and load_spark_model calls in one run
MaxCalls == 2

\* json.dumps of a python value: a list and a tuple both become an array
json_dumps(py) ==
    CASE py.t = "None" -> [j |-> "null", v |-> <<>>]
      [] py.t = "int" -> [j |-> "number", v |-> py.v]
      [] py.t = "str" -> [j |-> "string", v |-> py.v]
      [] py.t \in {"list", "tuple"} -> [j |-> "array", v |-> py.v]

\* json.loads of a JSON value: an array becomes a list
json_loads(js) ==
    CASE js.j = "null" -> PyNone
      [] js.j = "number" -> PyInt(js.v[1])
      [] js.j = "string" -> PyStr(js.v[1])
      [] js.j = "array" -> PyList(js.v)

\* a dict with str keys as a JSON object and back, item by item
json_dumps_dict(d) == [i \in DOMAIN d |-> <<d[i][1], json_dumps(d[i][2])>>]
json_loads_dict(obj) == [i \in DOMAIN obj |-> <<obj[i][1], json_loads(obj[i][2])>>]

\* a config that leaves out the mode
get_config_without_mode ==
    <<<<"parameter_server_mode", PyStr(settings.parameter_server_mode)>>,
      <<"frequency", PyStr(settings.frequency)>>,
      <<"num_workers", IF num_workers = 0 THEN PyNone ELSE PyInt(num_workers)>>,
      <<"batch_size", PyInt(settings.batch_size)>>>> \o settings.kwargs

\* SparkModel.get_config, lines 81-90: the five entries, then the kwargs
get_config ==
    <<<<"parameter_server_mode", PyStr(settings.parameter_server_mode)>>,
      <<"mode", PyStr(mode)>>,
      <<"frequency", PyStr(settings.frequency)>>,
      <<"num_workers", IF num_workers = 0 THEN PyNone ELSE PyInt(num_workers)>>,
      <<"batch_size", PyInt(settings.batch_size)>>>> \o settings.kwargs

\* an orchestrator: its class, its arguments and the weights of its network
Orchestrator(cls, m, nw, st, weights) ==
    [class_name |-> cls, mode |-> m, num_workers |-> nw,
     frequency |-> st.frequency,
     parameter_server_mode |-> st.parameter_server_mode,
     custom_objects |-> st.custom_objects, batch_size |-> st.batch_size,
     port |-> st.port, kwargs |-> st.kwargs, weights |-> weights]

\* the orchestrator of this run
Self == Orchestrator(class_name, mode, num_workers, settings, master_weights)

\* the orchestrator that saved the files found at the start
Other ==
    Orchestrator("SparkMLlibModel", "hogwild", 4, DefaultSettings, WS(5, 5))

\* the names of the constructor's parameters in a config
NamedArgs == {"parameter_server_mode", "mode", "frequency", "num_workers",
              "batch_size"}

HasKey(d, key) == \E i \in DOMAIN d : d[i][1] = key

\* the defaults of the constructors, lines 30-31 and 313-314
DefaultArg(cls, key) ==
    CASE key = "mode" -> PyStr("asynchronous")
      [] key = "num_workers" ->
             IF cls = "SparkMLlibModel" THEN PyInt(4) ELSE PyNone
      [] key = "frequency" -> PyStr(DefaultSettings.frequency)
      [] key = "parameter_server_mode" ->
             PyStr(DefaultSettings.parameter_server_mode)
      [] key = "batch_size" -> PyInt(DefaultSettings.batch_size)

Arg(cls, config, key) ==
    IF HasKey(config, key) THEN Lookup(config, key) ELSE DefaultArg(cls, key)

\* lines 386-389: cls(model=model, **config), the named entries bound to the
\* parameters, the others collected in kwargs, the rest at its default
FromConfig(cls, weights, config) ==
    [class_name |-> cls,
     mode |-> Arg(cls, config, "mode").v[1],
     num_workers |-> IF Arg(cls, config, "num_workers").t = "None"
                     THEN 0 ELSE Arg(cls, config, "num_workers").v[1],
     frequency |-> Arg(cls, config, "frequency").v[1],
     parameter_server_mode |-> Arg(cls, config, "parameter_server_mode").v[1],
     custom_objects |-> DefaultSettings.custom_objects,
     batch_size |-> Arg(cls, config, "batch_size").v[1],
     port |-> DefaultSettings.port,
     kwargs |-> SelectSeq(config, LAMBDA item : item[1] \notin NamedArgs),
     weights |-> weights]

\* a file name: stem.ext; the id tells the temp files apart
Name(stem, id, ext) == [stem |-> stem, id |-> id, ext |-> ext]
FileNames == {Name("model", 0, "h5"), Name("model", 0, "keras"),
              Name("model", 0, "txt")}

\* a test of the name that lets every name through
ValidName_any(file_name) == TRUE

\* lines 104-106 and 367-369: the name ends with .h5 or with .keras
ValidName(file_name) == file_name.ext \in {"h5", "keras"}

\* lines 113 and 372: str(uuid4()) + "-temp-model-file." + the extension
TempName(file_name) == Name("temp-model-file", uuids + 1, file_name.ext)
IsTemp(name) == name.stem = "temp-model-file"

\* a file system: the files by name
Write(files, name, content) == (name :> content) @@ files
Remove(files, name) == [n \in DOMAIN files \ {name} |-> files[n]]

\* an HDF5 file written by model.save, with the attributes added to it;
\* saved_from: the orchestrator that saved it, if one did
ElephasFile(orch, config) ==
    [format |-> "hdf5", weights |-> orch.weights,
     attrs |-> <<<<"distributed_config",
                   [class_name |-> orch.class_name,
                    config |-> json_dumps_dict(config)]>>>>,
     saved_from |-> <<orch>>]

\* a model file written by keras alone
KerasFile ==
    [format |-> "hdf5", weights |-> WS(7, 7), attrs |-> <<>>,
     saved_from |-> <<>>]

\* the file the other orchestrator saved
OtherFile ==
    ElephasFile(Other,
                <<<<"parameter_server_mode", PyStr("http")>>,
                  <<"mode", PyStr("hogwild")>>,
                  <<"frequency", PyStr("epoch")>>,
                  <<"num_workers", PyInt(4)>>,
                  <<"batch_size", PyInt(32)>>>>)

Call(op, file_name, overwrite, hadoop, result, file) ==
    [op |-> op, file_name |-> file_name, overwrite |-> overwrite,
     hadoop |-> hadoop, result |-> result, file |-> file]

\* the content of a file, if it exists
Content(files, name) == IF name \in DOMAIN files THEN <<files[name]>> ELSE <<>>

\* a model file whose metadata names a class that is neither SparkModel nor
\* SparkMLlibModel; line 120 writes self.__class__.__name__, so the save of
\* a class derived from SparkModel leaves such a file
ForeignFile ==
    [format |-> "hdf5", weights |-> WS(6, 6),
     attrs |-> <<<<"distributed_config",
                   [class_name |-> "MySparkModel",
                    config |-> json_dumps_dict(
                        <<<<"parameter_server_mode", PyStr("http")>>,
                          <<"mode", PyStr("synchronous")>>,
                          <<"frequency", PyStr("epoch")>>,
                          <<"num_workers", PyInt(2)>>,
                          <<"batch_size", PyInt(32)>>>>)]>>>>,
     saved_from |-> <<>>]

\* before the first call: model files written earlier, by another
\* orchestrator or by keras alone, locally or on the cluster
FileExists ==
    /\ calls = 0
    /\ \E content \in {OtherFile, KerasFile, ForeignFile} :
         LET name == Name("model", 0, "h5")
         IN \/ /\ name \notin DOMAIN fs
               /\ fs' = Write(fs, name, content)
               /\ UNCHANGED hdfs
            \/ /\ name \notin DOMAIN hdfs
               /\ hdfs' = Write(hdfs, name, content)
               /\ UNCHANGED fs
    /\ UNCHANGED <<uuids, calls, f_call, loaded>>

\* SparkModel.save, lines 92-134. moved: what `hadoop fs -moveFromLocal` did;
\* without -f it fails when the destination exists, and it can fail for
\* reasons of the cluster; subprocess.run returns either way
Save ==
    /\ calls < MaxCalls
    /\ calls' = calls + 1
    /\ \E file_name \in FileNames, overwrite \in BOOLEAN, to_hadoop \in BOOLEAN,
          moved \in BOOLEAN :
         LET written == ElephasFile(Self, get_config)
             temp == TempName(file_name)
             before == Content(IF to_hadoop THEN hdfs ELSE fs, file_name)
         IN IF ~ValidName(file_name)
            THEN /\ ~moved
                 /\ f_call' = Call("save", file_name, overwrite, to_hadoop,
                                   "AssertionError", before)
                 /\ UNCHANGED <<fs, hdfs, uuids>>
            ELSE IF ~to_hadoop
            THEN /\ ~moved
                 /\ fs' = Write(IF overwrite /\ file_name \in DOMAIN fs
                                THEN Remove(fs, file_name) ELSE fs,
                                file_name, written)
                 /\ f_call' = Call("save", file_name, overwrite, to_hadoop,
                                   "returned", before)
                 /\ UNCHANGED <<hdfs, uuids>>
            ELSE /\ uuids' = uuids + 1
                 /\ moved => (overwrite \/ file_name \notin DOMAIN hdfs)
                 /\ IF moved
                    THEN /\ hdfs' = Write(hdfs, file_name, written)
                         /\ fs' = Remove(Write(fs, temp, written), temp)
                    ELSE /\ fs' = Write(fs, temp, written)
                         /\ UNCHANGED hdfs
                 /\ f_call' = Call("save", file_name, overwrite, to_hadoop,
                                   "returned", before)
    /\ UNCHANGED loaded

\* load_spark_model, lines 355-389. copied: what `hadoop fs -copyToLocal` did
Load ==
    /\ calls < MaxCalls
    /\ calls' = calls + 1
    /\ \E file_name \in FileNames, from_hadoop \in BOOLEAN, copied \in BOOLEAN :
         LET temp == TempName(file_name)
             local == IF from_hadoop /\ copied
                      THEN Write(fs, temp, hdfs[file_name]) ELSE fs
             target == IF from_hadoop THEN temp ELSE file_name
             read == Content(local, target)
             raises(error) ==
                 /\ fs' = local
                 /\ f_call' = Call("load", file_name, FALSE, from_hadoop,
                                   error, read)
                 /\ UNCHANGED loaded
         IN /\ copied => (from_hadoop /\ ValidName(file_name)
                          /\ file_name \in DOMAIN hdfs)
            /\ uuids' = IF from_hadoop /\ ValidName(file_name)
                        THEN uuids + 1 ELSE uuids
            /\ UNCHANGED hdfs
            /\ IF ~ValidName(file_name)
               THEN raises("AssertionError")
               ELSE IF read = <<>> \/ read[1].format # "hdf5"
               THEN raises("OSError")
               ELSE IF ~HasKey(read[1].attrs, "distributed_config")
               THEN raises("TypeError")
               ELSE LET elephas_conf ==
                            Lookup(read[1].attrs, "distributed_config")
                        cls == elephas_conf.class_name
                        config == json_loads_dict(elephas_conf.config)
                    IN /\ fs' = IF from_hadoop THEN Remove(local, temp)
                                ELSE local
                       /\ loaded' =
                              IF cls \in ClassNames
                              THEN <<FromConfig(cls, read[1].weights, config)>>
                              ELSE <<>>
                       /\ f_call' = Call("load", file_name, FALSE,
                                         from_hadoop, "returned", read)

InitSave == Constructed(ClassNames, {0, 3}, SettingsArgs)

NextSave ==
    \/ FileExists /\ UNCHANGED <<modelVars, utilVars, overlapVars>>
    \/ Save /\ UNCHANGED <<modelVars, utilVars, overlapVars>>
    \/ Load /\ UNCHANGED <<modelVars, utilVars, overlapVars>>

SpecSave == InitSave /\ [][NextSave]_vars

\* --------------------------------------------------- overlapping fit calls
\* fit calls made by two threads of one process, on one orchestrator or on
\* two, asynchronous or hogwild. fit holds no lock and no test for a call
\* in progress (lines 169-233).

\* most deltas the workers of one fit call send
MaxDeltas == 2

Orchestrators == DOMAIN o_port

\* SparkModel.__init__, lines 75-79: the orchestrator gets a server and a
\* client for self.port
OConstruct ==
    /\ Len(o_port) < Cardinality(FitCalls)
    /\ \E port \in Ports : o_port' = Append(o_port, port)
    /\ srv_from' = Append(srv_from, {})
    /\ UNCHANGED <<bound, c_orch, c_pc, c_left>>

\* fit and _fit up to the dispatch (lines 181-214), for call c on an
\* orchestrator o: start_server binds the port when it is free; when it is
\* taken, by this server or by another, the start fails, and the call either
\* notices (it raises) or does not
OFitStart(c) ==
    /\ c_pc[c] = "idle"
    /\ \E o \in Orchestrators, n \in 1..MaxDeltas, noticed \in BOOLEAN :
         LET port == o_port[o]
         IN /\ c_orch' = [c_orch EXCEPT ![c] = o]
            /\ IF bound[port] = 0
               THEN /\ ~noticed
                    /\ bound' = [bound EXCEPT ![port] = o]
               ELSE UNCHANGED bound
            /\ IF noticed
               THEN /\ n = 1
                    /\ c_pc' = [c_pc EXCEPT ![c] = "raised"]
                    /\ UNCHANGED c_left
               ELSE /\ c_pc' = [c_pc EXCEPT ![c] = "dispatched"]
                    /\ c_left' = [c_left EXCEPT ![c] = n]
    /\ UNCHANGED <<o_port, srv_from>>

\* a worker of call c sends a delta through the client of its orchestrator
\* (line 211, the client made for self.port): the server that listens on the
\* port applies it; when none listens the task fails and the call raises
OSendDelta(c) ==
    /\ c_pc[c] = "dispatched"
    /\ c_left[c] > 0
    /\ LET port == o_port[c_orch[c]]
       IN IF bound[port] # 0
          THEN /\ srv_from' = [srv_from EXCEPT ![bound[port]] = @ \cup {c}]
               /\ c_left' = [c_left EXCEPT ![c] = @ - 1]
               /\ UNCHANGED c_pc
          ELSE /\ c_pc' = [c_pc EXCEPT ![c] = "raised"]
               /\ srv_from' = [s \in DOMAIN srv_from |-> srv_from[s] \ {c}]
               /\ UNCHANGED c_left
    /\ UNCHANGED <<o_port, bound, c_orch>>

\* lines 214-233: collect returns, get_parameters, set_weights, stop_server:
\* the server of the orchestrator releases the port if it holds it
OFitEnd(c) ==
    /\ c_pc[c] = "dispatched"
    /\ c_left[c] = 0
    /\ c_pc' = [c_pc EXCEPT ![c] = "returned"]
    /\ LET port == o_port[c_orch[c]]
       IN bound' = IF bound[port] = c_orch[c]
                   THEN [bound EXCEPT ![port] = 0] ELSE bound
    /\ srv_from' = [s \in DOMAIN srv_from |-> srv_from[s] \ {c}]
    /\ UNCHANGED <<o_port, c_orch, c_left>>

InitOverlap ==
    Constructed({"SparkModel"}, {0}, {DefaultSettings}) /\ mode \in ServerModes

NextOverlap ==
    \/ OConstruct /\ UNCHANGED <<modelVars, utilVars, fileVars>>
    \/ \E c \in FitCalls :
         OFitStart(c) /\ UNCHANGED <<modelVars, utilVars, fileVars>>
    \/ \E c \in FitCalls :
         OSendDelta(c) /\ UNCHANGED <<modelVars, utilVars, fileVars>>
    \/ \E c \in FitCalls :
         OFitEnd(c) /\ UNCHANGED <<modelVars, utilVars, fileVars>>

SpecOverlap == InitOverlap /\ [][NextOverlap]_vars

\* --------------------------------------------- inference between fit calls
\* One thread calls fit, and between two fit calls, or after the last one,
\* predict or evaluate: the orchestrator these calls find is the one the
\* fit calls have left.  A run makes one inference call; predict gets an
\* input of at most MaxInferInput elements.  hogwild is left out: it differs
\* from asynchronous in the server's locking only.
MaxInferInput == 1

NoInferenceCall == p_pc = "idle" /\ e_pc = "idle"

InitInference ==
    /\ Constructed({"SparkModel"}, {1, 2}, {DefaultSettings})
    /\ mode # "hogwild"

NextInference ==
    \/ NoInferenceCall /\ Next
    \/ /\ pc = "idle"
       /\ e_pc = "idle"
       /\ p_input' \in {data \in Inputs : Len(data) <= MaxInferInput}
       /\ PredictBegin
    \/ PredictMapWithIndices
    \/ PredictMap
    \/ PredictCollect
    \/ /\ pc = "idle"
       /\ p_pc = "idle"
       /\ EvaluateBegin
    \/ EvaluateReduce
    \/ EvaluateReturn

SpecInference == InitInference /\ [][NextInference]_vars

\* =================================================================== claims
Returned == pc = "idle" /\ fit_result = "returned"
Raised == pc = "idle" /\ fit_result = "raised"

\* sum of g_i / N over the first k training outcomes
RECURSIVE SumScaled(_, _)
SumScaled(outcomes, k) ==
    IF k = 0
    THEN ZeroWeights
    ELSE add_params(SumScaled(outcomes, k - 1),
                    divide_by(outcomes[k][1], Len(outcomes)))

\* sum of the final weights of the first k workers
RECURSIVE SumFinals(_)
SumFinals(k) ==
    IF k = 0 THEN ZeroWeights ELSE add_params(SumFinals(k - 1), workers[k].final)

\* C1: after a synchronous fit that collected N (gradient, history) pairs the
\* master weights are W0 - sum_i g_i / N, W0 the master's weights when fit was
\* called; each g_i is W0 - F_i, so the result is the average of the workers'
\* final weights F_1..F_N.
C1_SyncFitAverages ==
    (mode = "synchronous" /\ Returned) =>
        /\ Len(training_outcomes) = num_partitions
        /\ \A i \in Partitions :
               training_outcomes[i][1] = subtract_params(init, workers[i].final)
        /\ master_weights =
               subtract_params(init, SumScaled(training_outcomes, num_partitions))
        /\ master_weights = divide_by(SumFinals(num_partitions), num_partitions)

C1_Witness ==
    /\ mode = "synchronous"
    /\ Returned
    /\ num_partitions = 3
    /\ training_outcomes[1][1] # training_outcomes[2][1]
    /\ training_outcomes[3][1] # ZeroWeights
    /\ master_weights[1][2] = 3

\* C2: in asynchronous mode the update handler is mutually exclusive and the
\* store is the store at the start of the fit call minus the sum of the deltas
\* pushed; in particular once all partition tasks have finished.
C2_AsyncAppliesEveryDelta ==
    mode = "asynchronous" =>
        /\ Cardinality({i \in Partitions : workers[i].pc = "apply"}) <= 1
        /\ (\A i \in Partitions : workers[i].pc # "apply")
               => store = subtract_params(store0, pushed)

C2_Witness ==
    /\ mode = "asynchronous"
    /\ pc = "collected"
    /\ num_partitions = 2
    /\ workers[1].delta # ZeroWeights
    /\ workers[2].delta # workers[1].delta
    /\ workers[2].delta # ZeroWeights
    /\ pushed = add_params(workers[1].delta, workers[2].delta)
    /\ store = subtract_params(store0, pushed)

\* no update handler is running and the store is not the store at the start
\* of the fit call minus the deltas pushed
LostUpdate ==
    /\ \A i \in Partitions : workers[i].pc # "apply"
    /\ store # <<>>
    /\ store # subtract_params(store0, pushed)

\* C3: only the hogwild mode runs update handlers concurrently and only it
\* loses updates: two handlers at once, or a store that differs from the
\* store at the start of the fit call minus the deltas pushed, are states of
\* a hogwild orchestrator (and the second one is reached, see the witness).
C3_OnlyHogwildRaces ==
    (\/ LostUpdate
     \/ Cardinality({i \in Partitions : workers[i].pc = "apply"}) >= 2)
        => mode = "hogwild"

\* two hogwild workers pushed d1 and d2 and the store is not store0 - (d1 + d2)
C3_Witness ==
    /\ mode = "hogwild"
    /\ pc = "collected"
    /\ num_partitions = 2
    /\ epochs = 1
    /\ pushed = add_params(workers[1].delta, workers[2].delta)
    /\ store # subtract_params(store0, pushed)

\* C4: after an asynchronous or hogwild fit the master weights are the
\* snapshot get_parameters() returned, and after a fit with one partition and
\* one delta d they are initial_weights - d.
C4_MasterIsInitialMinusDelta ==
    (UsesServer /\ Returned) =>
        /\ master_weights = new_parameters
        /\ (num_partitions = 1 /\ epochs = 1)
               => master_weights = subtract_params(init, workers[1].delta)

\* the events of a fit call with a server, in the order of _fit
FitOrder == <<"start", "dispatch", "tasks_done", "get_parameters",
              "set_weights", "stop">>

IsPrefix(s, t) == Len(s) <= Len(t) /\ \A k \in 1..Len(s) : s[k] = t[k]

Alternates(log) ==
    \A k \in 1..Len(log) : log[k] = IF k % 2 = 1 THEN "start" ELSE "stop"

\* C5: in an asynchronous or hogwild fit call the server is started, then the
\* workers are dispatched, then all tasks finish, then the orchestrator calls
\* get_parameters, then the server is stopped; the server is running at every
\* send_delta and get_parameters call; over completed fit calls start and
\* stop alternate, beginning with start.
C5_ServerLifecycleOrder ==
    UsesServer =>
        /\ \/ IsPrefix(fit_trace, FitOrder)
           \/ fit_trace = <<"start", "dispatch", "raise">>
        /\ (pc \in {"dispatched", "collected", "reconciled"}) => server_running
        /\ (pc = "dispatched" => fit_trace = <<"start", "dispatch">>)
        /\ (pc \in {"collected", "reconciled"} => AllDone)
        /\ (\A i \in Partitions :
               (pc = "dispatched" /\ workers[i].pc \in {"send", "apply", "get"})
                   => server_running)
        /\ (fits_raised = 0 => Alternates(srv_log))
        /\ (fits_raised = 0 /\ pc = "idle" => Len(srv_log) = 2 * fits)

C5_Witness ==
    /\ UsesServer
    /\ Returned
    /\ fits_raised = 0
    /\ fit_trace = FitOrder
    /\ srv_log = <<"start", "stop", "start", "stop">>

\* C6: whenever no fit call is in progress the server is stopped and the port
\* released, also after a fit call that raised.
C6_ServerStoppedWhenIdle == pc = "idle" => ~server_running

\* C7: a fit call with a failed partition task never returns, it raises; and
\* a fit call that raised left the master weights as they were before the
\* call and appended no history of that call.
C7_FailedFitHasNoEffect ==
    /\ (pc \in {"collected", "reconciled"} \/ Returned) => ~SomeFailed
    /\ Raised =>
           /\ SomeFailed
           /\ master_weights = init
           /\ \A k \in 1..Len(training_histories) : training_histories[k][1] # fits

C7_Witness ==
    /\ Raised
    /\ num_partitions = 2
    /\ \E i \in Partitions : workers[i].pc = "done" /\ workers[i].delta # ZeroWeights

\* C10: the result of the synchronous reconciliation is the same for every
\* order of the collected (gradient, history) pairs.
C10_ReconcileOrderIndependent ==
    (mode = "synchronous" /\ pc \in {"reconciled", "idle"}
        /\ fit_result # "raised" /\ training_outcomes # <<>>) =>
        \A p \in Perms(Len(training_outcomes)) :
            Reconcile(init, [i \in DOMAIN training_outcomes |-> training_outcomes[p[i]]], 1)
                = new_parameters

C10_Witness ==
    /\ mode = "synchronous"
    /\ pc = "reconciled"
    /\ Len(training_outcomes) = 3
    /\ training_outcomes[1][1] # training_outcomes[2][1]
    /\ training_outcomes[2][1] # training_outcomes[3][1]
    /\ training_outcomes[1][1] # training_outcomes[3][1]


\* C8: predict with num_workers > 1 returns, whatever the repartitioning did
\* with the index-tagged elements, the prediction of the i-th input element
\* in the i-th place, without the indices.
C8_PredictKeepsInputOrder ==
    (p_pc = "returned" /\ WithIndices) =>
        p_result = [i \in DOMAIN p_input |-> Predict(master_weights, p_input[i])]

\* three partitions of unequal size, the elements shuffled across them
C8_Witness ==
    /\ p_pc = "returned"
    /\ num_workers = 3
    /\ Len(p_input) = 4
    /\ Len(p_parts[1]) = 1 /\ Len(p_parts[2]) = 2 /\ Len(p_parts[3]) = 1
    /\ p_parts[1][1][2] = 3
    /\ p_parts[2][1][2] = 2 /\ p_parts[2][2][2] = 0
    /\ p_input = <<0, 1, 1, 0>>
    /\ p_result = <<R(1), R(3), R(3), R(1)>>

\* the sample count of partition k and its j-th value
CountOf(k) == e_parts[k][Len(e_parts[k])]

RECURSIVE WeightedSum(_, _)
WeightedSum(j, k) ==
    IF k = 0 THEN R(0)
    ELSE RatAdd(WeightedSum(j, k - 1), RatMul(e_parts[k][j], CountOf(k)))

RECURSIVE TotalCount(_)
TotalCount(k) == IF k = 0 THEN R(0) ELSE RatAdd(TotalCount(k - 1), CountOf(k))

WeightedMean(j) ==
    RatDiv(WeightedSum(j, Len(e_parts)), TotalCount(Len(e_parts)))

\* C9: evaluate returns, for the loss and for every metric, the mean over the
\* partitions weighted by their sample counts, in whatever order the
\* partitions' results were reduced.
C9_EvaluateWeightedMean ==
    e_pc = "returned" =>
        IF Len(e_parts[1]) = 2
        THEN e_value = WeightedMean(1)
        ELSE /\ Len(e_value) = Len(e_parts[1]) - 1
             /\ \A j \in DOMAIN e_value : e_value[j] = WeightedMean(j)

\* two partitions of sizes 1 and 2 with losses 1 and 3: the loss is
\* (1*1 + 3*2) / 3 = 7/3, not (1 + 3) / 2 = 2
C9_Witness ==
    /\ e_pc = "returned"
    /\ e_parts = <<<<R(1), R(1)>>, <<R(3), R(2)>>>>
    /\ e_value = <<7, 3>>
    /\ e_value # RatDivInt(RatAdd(R(1), R(3)), 2)

\* C11: in synchronous mode, when every one of the N partitions produces a
\* zero gradient, the master weights after fit are the master weights before
\* fit, whatever N >= 1.
C11_ZeroGradientKeepsWeights ==
    (/\ mode = "synchronous"
     /\ Returned
     /\ \A i \in DOMAIN training_outcomes :
            training_outcomes[i][1] = ZeroWeights)
        => master_weights = init

\* a fit on three partitions, all with a zero gradient, has returned
C11_Witness ==
    /\ mode = "synchronous"
    /\ Returned
    /\ Len(training_outcomes) = 3
    /\ \A i \in DOMAIN training_outcomes :
           training_outcomes[i][1] = ZeroWeights
    /\ master_weights = InitialWeights

\* C12: a synchronous orchestrator has no parameter server: whatever calls
\* are made, no server exists, none is started or stopped, no worker and no
\* fit call talks to a server, and the master's weights change only when the
\* fit call writes the weights its reconciliation loop computed.
C12_SyncHasNoServer ==
    mode = "synchronous" =>
        /\ server_mode = "none"
        /\ store = <<>>
        /\ ~server_running
        /\ lock = 0
        /\ srv_log = <<>>
        /\ pushed = ZeroWeights
        /\ \A i \in Partitions : workers[i].pc \notin {"send", "apply", "get"}
        /\ \A k \in DOMAIN fit_trace :
               fit_trace[k] \notin {"start", "stop", "get_parameters"}
        /\ (pc # "idle" \/ Raised) => master_weights = init
        /\ Returned => master_weights = Reconcile(init, training_outcomes, 1)

\* a synchronous orchestrator has returned from its second fit call, and its
\* weights have moved
C12_Witness ==
    /\ mode = "synchronous"
    /\ Returned
    /\ fits = 2
    /\ master_weights # InitialWeights
    /\ master_weights # init

\* C14: workers never write the master's weights: while the partition tasks
\* of a fit call run, the master's weights are the weights the call started
\* with, and whenever they differ from these, every partition task has
\* finished, the dispatch has returned and the fit call has written them.
C14_MasterWrittenAfterDispatch ==
    /\ pc = "dispatched" => master_weights = init
    /\ (\E i \in Partitions : workers[i].pc # "done") => master_weights = init
    /\ (fit_trace # <<>> /\ fit_result # "ValueError"
        /\ master_weights # init) =>
           /\ Returned
           /\ \E k \in DOMAIN fit_trace :
                  /\ fit_trace[k] = "tasks_done"
                  /\ \E l \in DOMAIN fit_trace :
                         l > k /\ fit_trace[l] = "set_weights"

\* a fit call on two partitions wrote new weights after both had finished
C14_Witness ==
    /\ Returned
    /\ num_partitions = 2
    /\ \A i \in Partitions : workers[i].pc = "done" /\ workers[i].delta # ZeroWeights
    /\ master_weights # init

\* C18: fit on an orchestrator whose mode is none of asynchronous,
\* synchronous, hogwild raises ValueError, for SparkModel and SparkMLlibModel
\* alike: the server is never started, no partition task is dispatched, and
\* the master's weights and the training histories stay as constructed.
C18_UnsupportedModeRaises ==
    mode \notin Modes =>
        /\ pc = "idle"
        /\ fits > 0 => (fit_result = "ValueError" /\ fits_raised = fits)
        /\ ~server_running
        /\ srv_log = <<>>
        /\ workers = <<>>
        /\ num_partitions = 0
        /\ \A k \in DOMAIN fit_trace : fit_trace[k] \notin {"start", "dispatch"}
        /\ master_weights = InitialWeights
        /\ store = InitialWeights
        /\ training_histories = <<>>

\* the second fit call on a SparkMLlibModel of an unsupported mode has raised
C18_Witness ==
    /\ mode \notin Modes
    /\ class_name = "SparkMLlibModel"
    /\ fits = 2
    /\ fit_result = "ValueError"
    /\ fit_trace = <<"compile", "raise">>

\* C16: the model codec round-trips: model_to_dict(model) has exactly the
\* keys 'model' and 'weights', in this order, and
\* dict_to_model(model_to_dict(model)) has the architecture JSON of the model
\* and the weights of the model.
C16_CodecRoundTrip ==
    /\ u_pc \in {"encoded", "decoded"} =>
           /\ Keys(u_dict) = <<"model", "weights">>
           /\ Lookup(u_dict, "model") = to_json(u_model)
           /\ Lookup(u_dict, "weights") = get_weights(u_model)
    /\ u_pc = "decoded" =>
           /\ to_json(u_recovered) = to_json(u_model)
           /\ get_weights(u_recovered) = get_weights(u_model)

\* a relu model with weights other than those of a new network was decoded
C16_Witness ==
    /\ u_pc = "decoded"
    /\ u_model.arch.activation = "relu"
    /\ u_model.weights = <<Rat(1, 2), R(-1)>>
    /\ u_recovered = u_model

\* C17: the weight arithmetic obeys the inverse law: for WeightSets A and B
\* of equal length add(subtract(A, B), B) = A and divide_by(A, 1) = A; each
\* operation works array by array and returns as many arrays as it was given.
C17_WeightArithmeticInverse ==
    /\ u_pc \in {"subtracted", "added"} =>
           /\ Len(u_diff) = Len(u_a)
           /\ \A k \in DOMAIN u_a : u_diff[k] = RatSub(u_a[k], u_b[k])
    /\ u_pc = "added" =>
           /\ Len(u_sum) = Len(u_a)
           /\ u_sum = u_a
    /\ u_pc = "divided" =>
           /\ Len(u_quot) = Len(u_a)
           /\ \A k \in DOMAIN u_a : RatMul(u_quot[k], R(u_k)) = u_a[k]
           /\ u_k = 1 => u_quot = u_a

\* B was subtracted from A and added back, for A and B of two arrays with
\* a difference that is neither A nor zero
C17_Witness ==
    /\ u_pc = "added"
    /\ u_a = <<Rat(1, 2), R(2)>>
    /\ u_b = <<R(-1), Rat(1, 2)>>
    /\ u_diff = <<Rat(3, 2), Rat(3, 2)>>
    /\ u_sum = u_a

\* the last call was a load_spark_model that returned, of a file that an
\* orchestrator had saved
LoadedSavedFile ==
    /\ calls > 0
    /\ f_call.op = "load"
    /\ f_call.result = "returned"
    /\ f_call.file[1].saved_from # <<>>

\* the fields save/load is said to carry over, kwargs apart
SameFields(a, b) ==
    /\ a.class_name = b.class_name
    /\ a.mode = b.mode
    /\ a.num_workers = b.num_workers
    /\ a.frequency = b.frequency
    /\ a.parameter_server_mode = b.parameter_server_mode
    /\ a.batch_size = b.batch_size
    /\ a.weights = b.weights

\* a dict of python values with every tuple replaced by the list of its items
TuplesAsLists(d) ==
    [i \in DOMAIN d |->
        <<d[i][1],
          IF d[i][2].t = "tuple" THEN PyList(d[i][2].v) ELSE d[i][2]>>]

\* C15 as stated: loading a file saved from an orchestrator returns an
\* orchestrator of the same class with the same mode, num_workers, frequency,
\* parameter_server_mode, batch_size and extra kwargs, and with the weights
\* at save time.
C15_SaveLoadRoundTrip ==
    LoadedSavedFile =>
        /\ loaded # <<>>
        /\ SameFields(loaded[1], f_call.file[1].saved_from[1])
        /\ loaded[1].kwargs = f_call.file[1].saved_from[1].kwargs

\* C15, amended: loading a file saved from an orchestrator returns an
\* orchestrator of the same class with the same mode, num_workers, frequency,
\* parameter_server_mode and batch_size, with the weights at save time, and
\* with the extra kwargs as JSON carries them: a tuple comes back as the
\* list of its items, every other value unchanged.
C15_SaveLoadRoundTripJson ==
    LoadedSavedFile =>
        /\ loaded # <<>>
        /\ SameFields(loaded[1], f_call.file[1].saved_from[1])
        /\ loaded[1].kwargs =
               TuplesAsLists(f_call.file[1].saved_from[1].kwargs)

\* a hogwild SparkMLlibModel with 3 workers, a batch size and a list among
\* its kwargs was saved to the cluster and loaded from it
C15_Witness ==
    /\ LoadedSavedFile
    /\ f_call.hadoop
    /\ f_call.file[1].saved_from[1] = Self
    /\ class_name = "SparkMLlibModel"
    /\ mode = "hogwild"
    /\ num_workers = 3
    /\ settings.batch_size = 64
    /\ settings.kwargs # <<>>
    /\ loaded[1].kwargs = settings.kwargs
    /\ loaded[1].weights = master_weights

\* the last call was a save under a valid name whose destination existed
SavedOverExisting ==
    /\ calls > 0
    /\ f_call.op = "save"
    /\ ValidName(f_call.file_name)
    /\ f_call.file # <<>>

\* C19: overwrite is a strict flag of save: called without overwrite on a
\* destination that exists, save raises and leaves the destination as it
\* was; the destination is replaced only when overwrite is true.
C19_OverwriteIsStrict ==
    (SavedOverExisting /\ ~f_call.overwrite) =>
        /\ f_call.result # "returned"
        /\ Content(IF f_call.hadoop THEN hdfs ELSE fs, f_call.file_name)
               = f_call.file

\* C20: after save(to_hadoop=True) or load_spark_model(from_hadoop=True) has
\* returned or raised, no temporary model file of the call is left among
\* the local files.
C20_TempFilesCleanedUp == \A name \in DOMAIN fs : ~IsTemp(name)

\* C13: a parameter server is never shared by two fit calls that overlap in
\* time: no server has taken deltas from the workers of two fit calls that
\* are both running, be they calls on one orchestrator or on two
\* orchestrators of the process.
C13_ServerNotShared ==
    \A s \in DOMAIN srv_from :
        \A c1 \in srv_from[s], c2 \in srv_from[s] :
            (c_pc[c1] = "dispatched" /\ c_pc[c2] = "dispatched") => c1 = c2

\* C21: save and load_spark_model reject a file name that ends with neither
\* .h5 nor .keras: the call raises, and no file, local or on the cluster, is
\* created, deleted, written or transferred by it, no temporary name is
\* drawn and nothing is loaded.
C21_BadNameRejectedFirst ==
    [][(calls' = calls + 1 /\ f_call'.file_name.ext \notin {"h5", "keras"})
          => /\ f_call'.result = "AssertionError"
             /\ fs' = fs
             /\ hdfs' = hdfs
             /\ uuids' = uuids
             /\ loaded' = loaded]_vars

\* a save to the cluster with overwrite under the name model.txt has raised,
\* with model files present locally and on the cluster
C21_Witness ==
    /\ calls > 0
    /\ f_call.op = "save"
    /\ f_call.file_name.ext = "txt"
    /\ f_call.overwrite
    /\ f_call.hadoop
    /\ f_call.result = "AssertionError"
    /\ fs # <<>>
    /\ hdfs # <<>>

\* C22: the training-history log starts empty and changes only when a
\* synchronous fit call has collected its partition results: the call then
\* appends one history per partition, in collection order, behind the
\* entries already there; asynchronous and hogwild fit calls leave it empty.
C22_HistoriesAppendedInOrder ==
    /\ [](mode # "synchronous" => training_histories = <<>>)
    /\ [](fits = 0 => training_histories = <<>>)
    /\ [][training_histories' # training_histories
             => /\ mode = "synchronous"
                /\ pc = "dispatched"
                /\ pc' = "reconciled"
                /\ \A i \in Partitions : workers[i].pc = "done"
                /\ training_histories' =
                       training_histories
                           \o [i \in 1..num_partitions |-> <<fits, i>>]]_vars

\* two synchronous fit calls, on one partition and on two, have returned
C22_Witness ==
    /\ mode = "synchronous"
    /\ Returned
    /\ fits = 2
    /\ training_histories = <<<<1, 1>>, <<2, 1>>, <<2, 2>>>>

\* C23: every asynchronous or hogwild fit call starts with the server's
\* weights equal to the master network's weights that the call broadcasts
\* as the initial weights.
C23_StoreIsMasterAtFitStart ==
    (UsesServer /\ pc \in {"dispatched", "collected"}) => store0 = init

\* C24: with more than one worker predict never raises, whatever the input
\* size and the assignment of elements to partitions, empty partitions
\* included, and it returns exactly one prediction per input element.
C24_PredictTotalWithEmptyPartitions ==
    WithIndices =>
        /\ p_pc # "raised"
        /\ p_pc = "returned" => Len(p_result) = Len(p_input)

\* C25: predict and evaluate are read-only: no step of either call changes
\* the master network's weights, the history log, the mode, the number of
\* workers or the rest of the configuration, nor whether the parameter
\* server is running or what it stores.
C25_InferenceIsReadOnly ==
    [][(predVars' # predVars \/ evalVars' # evalVars)
          => /\ master_weights' = master_weights
             /\ training_histories' = training_histories
             /\ mode' = mode
             /\ num_workers' = num_workers
             /\ class_name' = class_name
             /\ settings' = settings
             /\ server_running' = server_running
             /\ server_mode' = server_mode
             /\ store' = store]_vars

\* evaluate has returned on an orchestrator that a synchronous fit on two
\* partitions had trained before
C25_Witness ==
    /\ e_pc = "returned"
    /\ mode = "synchronous"
    /\ Returned
    /\ training_histories = <<<<1, 1>>, <<1, 2>>>>
    /\ master_weights # InitialWeights

\* C26: a load_spark_model call that does not raise returns an orchestrator:
\* it never returns None, whatever the file holds.
C26_LoadReturnsOrchestratorOrRaises ==
    (calls > 0 /\ f_call.op = "load" /\ f_call.result = "returned")
        => loaded # <<>>

\* C27: the orchestrator loaded from a file that an orchestrator saved has
\* the port and the custom_objects the saving orchestrator was constructed
\* with.
C27_LoadKeepsPortAndCustomObjects ==
    (LoadedSavedFile /\ loaded # <<>>) =>
        /\ loaded[1].port = f_call.file[1].saved_from[1].port
        /\ loaded[1].custom_objects =
               f_call.file[1].saved_from[1].custom_objects

====
